---- MODULE Spec2Model ----
(***************************************************************************)
(* Render/effect scheduling as exercised by the example components          *)
(* (Counter, TodoList, Names, SearchResults) and their tests: a single      *)
(* JavaScript thread with a microtask queue and a timer queue, one mounted  *)
(* component, and a test that drives it through raw events, act() (the      *)
(* synchronous and the awaited flush) and waitFor().                        *)
(***************************************************************************)
EXTENDS Integers, Sequences, FiniteSets, TLC

(***************************************************************************)
(* Bounds of the model.                                                     *)
(***************************************************************************)
\* statements one test executes
MaxSteps == 3
\* events dispatched inside one flush callback
MaxCalls == 2
\* promises awaited in the fetch function before it returns its data
MaxChain == 2
\* iteration cap of the synchronous drain (the scheduler contract fixes no number)
MaxPasses == 3
\* timer callbacks of the search box scheduled and not yet fired
MaxPending == 2

(***************************************************************************)
(* Program constants.                                                       *)
(***************************************************************************)
\* "waitFor will timeout after 1 second by default"
DefaultTimeout == 1000
\* the delayed fetch of the first waitFor test
FetchDelayShort == 500
\* the delayed fetch of the timeout tests
FetchDelayLong == 2000
\* findByText(..., { timeout: 2500, interval: 500 })
OverrideTimeout == 2500
OverrideInterval == 500
\* getRandomNumber(2, 50)
MinResults == 2
MaxResults == 50
\* let value = 1; Promise.resolve(2)
InitValue == 1
ResolvedValue == 2

VARIABLES
    comp,      \* the component under test and its fetchTodos/fetchNames prop
    mounted,   \* "no", "yes" or "torn" (unmounted)
    cells,     \* the committed values of the component's state cells
    pendQ,     \* Pending Work Queue: reasons the component awaits a render pass
    out,       \* the committed output (what screen/container queries see)
    title,     \* document.title, written by Counter's effect
    effectQ,   \* Effect Queue: effects of the last render pass not yet run
    deps,      \* dependency list recorded at the last render pass
    microQ,    \* microtask queue (promise reactions)
    timers,    \* timer queue (macrotasks), in the order they were scheduled
    clock,     \* milliseconds since the test started
    fetched,   \* calls of the fetch function (fetchTodos/fetchNames) so far
    value,     \* the local `value` of the promise tests
    pc,        \* where the test is: "sync", "awaitAct", "awaitTick",
               \* "awaitTimer", "waitFor", "done", "failed"
    steps,     \* statements the test has executed
    last       \* the test's last operation: what it was given and what it did

vars == <<comp, mounted, cells, pendQ, out, title, effectQ, deps, microQ,
          timers, clock, fetched, value, pc, steps, last>>

(***************************************************************************)
(* Data of the tests.                                                       *)
(***************************************************************************)
NoDelay == -1

\* jest.mock("./services"): fetchTodos resolves with three todos
MockTodos == << [id |-> 1, title |-> "first todo"],
                [id |-> 2, title |-> "second todo"],
                [id |-> 3, title |-> "third todo"] >>

\* fakeTodos of the delayed fetches
FakeTodos == << [id |-> 1, title |-> "this todo takes awhile to appear"],
                [id |-> 2, title |-> "second todo"] >>

\* jest.mock("./services"): fetchNames resolves with three names
MockNames == << "jill", "bob", "who cares" >>

\* values typed into the search input (prefixes of "search term")
Vals == {"", "s", "se"}

\* Math.floor(Math.random() * (max - min + 1)) + min: any integer of min..max
getRandomNumber(min, max) == min..max

\* the lengths getRandomNumber(2, 50) can draw
ResultLens == getRandomNumber(MinResults, MaxResults)

Kinds == {"Counter", "TodoList", "Names", "SearchResults", "Cascade", "Once",
          "BadRender", "BadEffect"}

\* a fetch function: resolves after `delay` ms (NoDelay: no timer involved)
\* through `depth` additional awaited promises
Fetches ==
    { [delay |-> NoDelay, depth |-> d] : d \in 0..MaxChain }
    \cup { [delay |-> t, depth |-> 0] : t \in {FetchDelayShort, FetchDelayLong} }

\* polling intervals tried with the default timeout: the source does not name
\* the default interval ("{ timeout: 2000, interval: 100 }" is its example)
DefaultIntervals == {50, 100}

\* the options a waitFor call is given
WaitOpts ==
    { [timeout |-> DefaultTimeout, interval |-> i] : i \in DefaultIntervals }
    \cup { [timeout |-> OverrideTimeout, interval |-> OverrideInterval] }

NoFetch == [delay |-> NoDelay, depth |-> 0]

\* Cascade: a component whose effect increments its state until `target`
CascadeTargets == 0..(MaxPasses + 1)

\* Once: a component whose effect, registered with the empty dependency
\* list, sets its count to 1, and whose button sets the count to 1 as well
OnceComp == [kind |-> "Once", fetch |-> NoFetch, target |-> 1]

\* BadRender, BadEffect: counters whose render function, or whose effect
\* (registered without a dependency list), throws when the count it renders
\* is `target`: at the mount, or after the first click
ThrowingKinds == {"BadRender", "BadEffect"}

ThrowAt == {0, 1}

\* the exceptions of application callbacks
AppErrors == {"RenderError", "EffectError"}

Comps ==
    { [kind |-> "Counter", fetch |-> NoFetch, target |-> 0],
      [kind |-> "SearchResults", fetch |-> NoFetch, target |-> 0] }
    \cup { [kind |-> k, fetch |-> f, target |-> 0] :
             k \in {"TodoList", "Names"}, f \in Fetches }
    \cup { [kind |-> "Cascade", fetch |-> NoFetch, target |-> t] :
             t \in CascadeTargets }
    \cup { OnceComp }
    \cup { [kind |-> k, fetch |-> NoFetch, target |-> t] :
             k \in ThrowingKinds, t \in ThrowAt }

\* the data a fetch delivers
FetchData(c) ==
    IF c.kind = "Names" THEN MockNames
    ELSE IF c.fetch.delay = NoDelay THEN MockTodos
    ELSE FakeTodos

InitCells == [count |-> 0, items |-> <<>>, input |-> "", results |-> <<>>]

(***************************************************************************)
(* Rendering.                                                               *)
(***************************************************************************)
\* `You clicked ${count} times`
Text(n) == <<"You clicked", n, "times">>

\* entry i (from 0) of the fake search: `result ${i + 1} for ${val}`
ResultText(i, val) == <<"result", i + 1, "for", val>>

\* Array.from({ length }).map((_, i) => `result ${i + 1} for ${val}`)
FakeResults(len, val) == [i \in 1..len |-> ResultText(i - 1, val)]

\* the <li> texts of a list of todos
Titles(todos) == [i \in 1..Len(todos) |-> todos[i].title]

\* the output a component renders from its state
RenderOut(c, cs) ==
    [ label   |-> IF c.kind = "Counter" THEN Text(cs.count)
                  ELSE IF c.kind \in {"Cascade", "Once"} \cup ThrowingKinds
                  THEN <<cs.count>>
                  ELSE <<>>,
      list    |-> IF c.kind = "TodoList" THEN Titles(cs.items)
                  ELSE IF c.kind = "Names" THEN cs.items
                  ELSE <<>>,
      value   |-> IF c.kind = "SearchResults" THEN cs.input ELSE "",
      results |-> IF c.kind = "SearchResults" THEN cs.results ELSE <<>> ]

NoOut == [label |-> <<>>, list |-> <<>>, value |-> "", results |-> <<>>]

(***************************************************************************)
(* The world the synchronous code of one task reads and writes.  Every      *)
(* operator below maps a world to the world after the code has run.         *)
(***************************************************************************)
World ==
    [ comp |-> comp, mounted |-> mounted, cells |-> cells, pendQ |-> pendQ,
      out |-> out, title |-> title, effectQ |-> effectQ, deps |-> deps,
      microQ |-> microQ, timers |-> timers, clock |-> clock,
      fetched |-> fetched, value |-> value,
      calls |-> 0, same |-> 0, passes |-> 0, err |-> "none" ]

NoDeps == [set |-> FALSE, list |-> <<>>]

MkUpdate(cell, fn, val) == [reason |-> "update", cell |-> cell, fn |-> fn, val |-> val]

MountWork == [reason |-> "mount", cell |-> "none", fn |-> "none", val |-> 0]

MkTimer(k, due, val, n) == [k |-> k, due |-> due, val |-> val, n |-> n]

MkMicro(k, n) == [k |-> k, n |-> n]

\* an effect callback queued by a render, with the value it captured
MkEffect(k, n) == [k |-> k, n |-> n, f |-> NoFetch]

\* the callback TodoList hands to useEffect: it calls the fetchTodos of the
\* render that registered it
MkFetchEffect(f) == [k |-> "fetch", n |-> 0, f |-> f]

\* an update applied to a value: a new value, or an updater (prev) => next
ApplyUpdate(u, v) == IF u.fn = "inc" THEN v + 1 ELSE u.val

\* the value of a cell after the queued updates, in the order they were queued
RECURSIVE ApplyAll(_, _, _)
ApplyAll(q, cell, v) ==
    IF q = <<>> THEN v
    ELSE ApplyAll(Tail(q), cell,
                  IF Head(q).reason = "update" /\ Head(q).cell = cell
                  THEN ApplyUpdate(Head(q), v) ELSE v)

\* the latest pending value of a cell
Latest(w, cell) == ApplyAll(w.pendQ, cell, w.cells[cell])

\* a comparison that finds every new value different
SameValueNever(cell, new, cur) == FALSE

\* numbers and strings compare by value; every array the components pass to
\* a setter is freshly created, so it is never identical to the current one
SameValue(cell, new, cur) == cell \in {"count", "input"} /\ new = cur

\* a setter that does not look whether its component is still mounted
SetterUnchecked(w, u) ==
    LET cur == Latest(w, u.cell)
        new == ApplyUpdate(u, cur)
    IN  IF SameValue(u.cell, new, cur)
        THEN [w EXCEPT !.calls = @ + 1, !.same = @ + 1]
        ELSE [w EXCEPT !.pendQ = Append(@, u), !.calls = @ + 1]

\* a setter call: computed against the latest pending value, enqueued when
\* the value changes, never rendering by itself; a no-op after teardown
Setter(w, u) ==
    IF w.mounted # "yes" THEN w
    ELSE LET cur == Latest(w, u.cell)
             new == ApplyUpdate(u, cur)
         IN  IF SameValue(u.cell, new, cur)
             THEN [w EXCEPT !.calls = @ + 1, !.same = @ + 1]
             ELSE [w EXCEPT !.pendQ = Append(@, u), !.calls = @ + 1]

(***************************************************************************)
(* The components.                                                          *)
(***************************************************************************)
\* a handler that adds to the count its render captured: setCount(count + 1)
CounterHandleClickCaptured(w) == Setter(w, MkUpdate("count", "set", w.cells.count + 1))

\* Counter.handleClick: setCount((value) => value + 1)
CounterHandleClick(w) == Setter(w, MkUpdate("count", "inc", 0))

\* a fetch function that awaits no additional promise
StartFetchFlat(w, f) ==
    [w EXCEPT !.fetched = @ + 1, !.microQ = Append(@, MkMicro("chain", 0))]

\* the body of a fetch function up to its first suspension: a timer when the
\* data is delayed, otherwise the continuation after its first await (or the
\* then-reaction, when it awaits nothing), for the fetch function f called
StartFetch(w, f) ==
    IF f.delay = NoDelay
    THEN [w EXCEPT !.fetched = @ + 1,
                   !.microQ = Append(@, MkMicro("chain", f.depth))]
    ELSE [w EXCEPT !.fetched = @ + 1,
                   !.timers = Append(@, MkTimer("data", w.clock + f.delay,
                                                "", f.depth))]

\* an effect that never starts the fetch
TodoListEffectNoFetch(w, f) == w

\* an effect that has the data at hand and sets it without a promise
TodoListEffectSync(w, f) ==
    Setter([w EXCEPT !.fetched = @ + 1], MkUpdate("items", "set", FetchData(w.comp)))

\* TodoList's effect: fetchTodos().then((todos) => { setTodos(todos) }),
\* fetchTodos being the one of the render that registered the effect
TodoListEffect(w, f) == StartFetch(w, f)

\* a handler that sets the names in the handler itself, awaiting nothing
NamesHandleClickEager(w) == Setter(w, MkUpdate("items", "set", FetchData(w.comp)))

\* Names.handleClick: fetchNames().then((result) => setNames(result))
NamesHandleClick(w) == StartFetch(w, w.comp.fetch)

\* a then-callback that drops the fetched data
ThenCallbackDropped(w) == w

\* the then-callback of both lists: setTodos(todos) / setNames(result)
ThenCallback(w) == Setter(w, MkUpdate("items", "set", FetchData(w.comp)))

\* a handler that sets the results in the handler itself, without a timer
SearchHandleChangeInline(w, val) ==
    Setter(Setter(w, MkUpdate("input", "set", val)),
           MkUpdate("results", "set", IF val # "" THEN FakeResults(MinResults, val) ELSE <<>>))

\* SearchResults.handleChange: setInputValue(val); setTimeout(() => ...)
SearchHandleChange(w, val) ==
    LET w1 == Setter(w, MkUpdate("input", "set", val))
    IN  [w1 EXCEPT !.timers = Append(@, MkTimer("results", w1.clock, val, 0))]

\* a timer callback with the test on val inverted
SearchTimerCallbackInverted(w, val, len) ==
    IF val = ""
    THEN Setter(w, MkUpdate("results", "set", FakeResults(len, val)))
    ELSE Setter(w, MkUpdate("results", "set", <<>>))

\* the callback SearchResults hands to setTimeout, for the captured val and
\* the random length it draws
SearchTimerCallback(w, val, len) ==
    IF val # ""
    THEN Setter(w, MkUpdate("results", "set", FakeResults(len, val)))
    ELSE Setter(w, MkUpdate("results", "set", <<>>))

\* an effect that writes the title without the count
CounterEffectFixedTitle(w, count) == [w EXCEPT !.title = Text(0)]

\* an effect that also mirrors the count into component state
CounterEffectSetsState(w, count) ==
    Setter([w EXCEPT !.title = Text(count)],
           MkUpdate("input", "set", IF count % 2 = 1 THEN "s" ELSE "se"))

\* Counter's effect: document.title = `You clicked ${count} times`
CounterEffect(w, count) == [w EXCEPT !.title = Text(count)]

\* Cascade's effect: sets state again until the target is reached
CascadeEffect(w, count) ==
    IF count < w.comp.target THEN Setter(w, MkUpdate("count", "inc", 0)) ELSE w

\* Once's effect and its click handler: setCount(1)
OnceEffect(w) == Setter(w, MkUpdate("count", "set", w.comp.target))

OnceHandleClick(w) == Setter(w, MkUpdate("count", "set", w.comp.target))

\* the click handler of BadRender and BadEffect: setCount((value) => value + 1)
BadHandleClick(w) == Setter(w, MkUpdate("count", "inc", 0))

\* whether the render function throws for state cs
RenderThrows(c, cs) == c.kind = "BadRender" /\ cs.count = c.target

\* BadEffect's effect: throws when the count it captured is the target
BadEffectCallback(w, count) ==
    IF count = w.comp.target THEN [w EXCEPT !.err = "EffectError"] ELSE w

\* a fetch effect registered without its dependency list
DepsOfNone(c) == NoDeps

\* the dependency list a render pass records: [fetchTodos] for TodoList,
\* the empty list for Once, none for the effects of Counter and Cascade
DepsOf(c) ==
    IF c.kind = "TodoList" THEN [set |-> TRUE, list |-> <<c.fetch>>]
    ELSE IF c.kind = "Once" THEN [set |-> TRUE, list |-> <<>>]
    ELSE NoDeps

\* the effect a component registers when it renders state cs (a sequence
\* of at most one effect: Names and SearchResults register none)
EffectsOf(c, cs) ==
    IF c.kind = "Counter" THEN << MkEffect("title", cs.count) >>
    ELSE IF c.kind = "Cascade" THEN << MkEffect("cascade", cs.count) >>
    ELSE IF c.kind = "TodoList" THEN << MkFetchEffect(c.fetch) >>
    ELSE IF c.kind = "Once" THEN << MkEffect("once", 0) >>
    ELSE IF c.kind = "BadEffect" THEN << MkEffect("bad", cs.count) >>
    ELSE <<>>

\* dependencies changed: no list is given, none was recorded yet, or the
\* new list is shallow-unequal to the recorded one
DepsChanged(old, new) == ~new.set \/ ~old.set \/ old.list # new.list

\* the effects a render pass queues
EffectsDue(c, cs, old) ==
    IF DepsChanged(old, DepsOf(c)) THEN EffectsOf(c, cs) ELSE <<>>

RunEffect(w, e) ==
    IF e.k = "title" THEN CounterEffect(w, e.n)
    ELSE IF e.k = "fetch" THEN TodoListEffect(w, e.f)
    ELSE IF e.k = "once" THEN OnceEffect(w)
    ELSE IF e.k = "bad" THEN BadEffectCallback(w, e.n)
    ELSE CascadeEffect(w, e.n)

(***************************************************************************)
(* The scheduler.                                                           *)
(***************************************************************************)
\* run the queued effects in order; an effect may enqueue state updates;
\* an exception of an effect ends the run and is left in err for the caller
RECURSIVE RunEffects(_)
RunEffects(w) ==
    IF w.effectQ = <<>> \/ w.err # "none" THEN w
    ELSE RunEffects(RunEffect([w EXCEPT !.effectQ = Tail(@)], Head(w.effectQ)))

\* a render pass that commits the state of all queued updates but renders
\* the output from the state after the first of them only
RenderPassPartial(w) ==
    LET w0 == RunEffects(w)
        cs == [c \in DOMAIN w0.cells |-> ApplyAll(w0.pendQ, c, w0.cells[c])]
        c1 == [c \in DOMAIN w0.cells |->
                 ApplyAll(SubSeq(w0.pendQ, 1, 1), c, w0.cells[c])]
    IN  [w0 EXCEPT !.cells = cs,
                   !.pendQ = <<>>,
                   !.out = RenderOut(w0.comp, c1),
                   !.effectQ = EffectsDue(w0.comp, cs, w0.deps),
                   !.deps = DepsOf(w0.comp),
                   !.passes = @ + 1]

\* one render pass: the effects still queued from the previous pass run
\* first, then every queued update is applied, the output is committed and
\* the effects due are queued; an exception of an effect or of the render
\* function ends the pass with nothing committed
RenderPass(w) ==
    LET w0 == RunEffects(w)
        cs == [c \in DOMAIN w0.cells |-> ApplyAll(w0.pendQ, c, w0.cells[c])]
    IN  IF w0.err # "none" THEN w0
        ELSE IF RenderThrows(w0.comp, cs) THEN [w0 EXCEPT !.err = "RenderError"]
        ELSE [w0 EXCEPT !.cells = cs,
                        !.pendQ = <<>>,
                        !.out = RenderOut(w0.comp, cs),
                        !.effectQ = EffectsDue(w0.comp, cs, w0.deps),
                        !.deps = DepsOf(w0.comp),
                        !.passes = @ + 1]

HasTimer(w, k) == \E i \in 1..Len(w.timers) : w.timers[i].k = k

\* effects run in the frame whose render queued them
SchedulePassiveEager(w) == RunEffects(w)

\* effects queued outside a flush are drained by a task of their own
SchedulePassive(w) ==
    IF w.effectQ # <<>> /\ ~HasTimer(w, "passive")
    THEN [w EXCEPT !.timers = Append(@, MkTimer("passive", w.clock, "", 0))]
    ELSE w

\* the end of a batch outside any flush (an event dispatch, a promise or
\* timer callback, a bare ReactDOM.render): the queued work is rendered at
\* once, the effects are left to their task
Commit(w) == IF w.pendQ # <<>> THEN SchedulePassive(RenderPass(w)) ELSE w

\* an iteration that catches what the callbacks throw
DrainPassSwallowing(w) ==
    [RunEffects(IF w.pendQ # <<>> THEN RenderPass(w) ELSE w) EXCEPT !.err = "none"]

\* one iteration of the drain: render if dirty, then run the effects
DrainPass(w) == RunEffects(IF w.pendQ # <<>> THEN RenderPass(w) ELSE w)

\* a drain without the iteration cap
RECURSIVE DrainUncapped(_, _)
DrainUncapped(w, n) ==
    IF w.err # "none" THEN w
    ELSE IF w.pendQ = <<>> /\ w.effectQ = <<>> THEN w
    ELSE DrainUncapped(DrainPass(w), n + 1)

\* drain both queues until they are empty, at most MaxPasses iterations;
\* an exception of a callback ends the drain and goes to the caller
RECURSIVE Drain(_, _)
Drain(w, n) ==
    IF w.err # "none" THEN w
    ELSE IF w.pendQ = <<>> /\ w.effectQ = <<>> THEN w
    ELSE IF n >= MaxPasses THEN [w EXCEPT !.err = "ScheduleOverflowError"]
    ELSE Drain(DrainPass(w), n + 1)

\* an event: [k |-> "click" | "change", val |-> the value typed]
MkEvent(k, val) == [k |-> k, val |-> val]

\* the component's handler for an event
Handler(w, ev) ==
    IF w.comp.kind = "Counter" THEN CounterHandleClick(w)
    ELSE IF w.comp.kind = "Names" THEN NamesHandleClick(w)
    ELSE IF w.comp.kind = "SearchResults" THEN SearchHandleChange(w, ev.val)
    ELSE IF w.comp.kind = "Once" THEN OnceHandleClick(w)
    ELSE IF w.comp.kind \in ThrowingKinds THEN BadHandleClick(w)
    ELSE w

RECURSIVE RunEvents(_, _)
RunEvents(w, evs) ==
    IF evs = <<>> THEN w ELSE RunEvents(Handler(w, Head(evs)), Tail(evs))

\* the timer callbacks the search box has scheduled and that have not fired
PendingResults(w) ==
    Cardinality({ i \in 1..Len(w.timers) : w.timers[i].k = "results" })

\* the sequences of n events a test can dispatch at a component: clicks on
\* the button, or changes of the input each to a value other than the one
\* it holds, while no more than MaxPending of its timer callbacks are waiting
EventSeqs(w, n) ==
    IF w.comp.kind \in {"Counter", "Names", "Once"} \cup ThrowingKinds
    THEN { [i \in 1..n |-> MkEvent("click", "")] }
    ELSE IF w.comp.kind = "SearchResults" /\ PendingResults(w) + n <= MaxPending
    THEN { [i \in 1..n |-> MkEvent("change", vs[i])] :
             vs \in { x \in [1..n -> Vals] :
                        /\ x[1] # Latest(w, "input")
                        /\ \A i \in 1..(n - 1) : x[i + 1] # x[i] } }
    ELSE {}

\* a callback that does nothing: act(() => {})
NoCallback == [k |-> "none", evs |-> <<>>]

\* the callback handed to a flush: mount the component, dispatch events, or
\* nothing
Callbacks(w) ==
    { NoCallback } \cup
    ( IF w.mounted = "no" THEN { [k |-> "mount", evs |-> <<>>] }
      ELSE IF w.mounted = "yes"
      THEN { [k |-> "events", evs |-> evs] :
               evs \in UNION { EventSeqs(w, n) : n \in 1..MaxCalls } }
      ELSE {} )

\* ReactDOM.render(<C />, container)
Mount(w) == [w EXCEPT !.mounted = "yes", !.pendQ = Append(@, MountWork)]

RunCallback(w, cb) == IF cb.k = "mount" THEN Mount(w) ELSE RunEvents(w, cb.evs)

PropsWork == [reason |-> "props", cell |-> "none", fn |-> "none", val |-> 0]

\* ReactDOM.render(<TodoList fetchTodos={f} />, container) on the mounted
\* list: the same component with a new prop
Rerender(w, f) == [w EXCEPT !.comp.fetch = f, !.pendQ = Append(@, PropsWork)]

\* flushSync(callback): run the callback, then drain
FlushSync(w, cb) == Drain(RunCallback(w, cb), 0)

(***************************************************************************)
(* The timer queue.                                                         *)
(***************************************************************************)
Max(a, b) == IF a >= b THEN a ELSE b

RemoveAt(q, i) == [j \in 1..(Len(q) - 1) |-> IF j < i THEN q[j] ELSE q[j + 1]]

\* a timer queue that fires the last scheduled of the timers due first
NextTimerLast(ts) ==
    CHOOSE i \in 1..Len(ts) :
        \A j \in 1..Len(ts) : ts[i].due < ts[j].due \/ (ts[i].due = ts[j].due /\ i >= j)

\* the timer that fires next: the earliest due, the first scheduled of those
NextTimer(ts) ==
    CHOOSE i \in 1..Len(ts) :
        \A j \in 1..Len(ts) : ts[i].due < ts[j].due \/ (ts[i].due = ts[j].due /\ i <= j)

RECURSIVE DropTimers(_, _)
DropTimers(ts, ks) ==
    IF ts = <<>> THEN <<>>
    ELSE IF Head(ts).k \in ks THEN DropTimers(Tail(ts), ks)
    ELSE <<Head(ts)>> \o DropTimers(Tail(ts), ks)

(***************************************************************************)
(* The test.                                                                *)
(***************************************************************************)
\* what the predicate handed to waitFor looks for: the first fetched item,
\* or the first result for the value typed; it throws when that is absent
Expect(c, o) ==
    IF c.kind = "TodoList"
    THEN \E i \in 1..Len(o.list) : o.list[i] = FetchData(c)[1].title
    ELSE IF c.kind = "Names"
    THEN \E i \in 1..Len(o.list) : o.list[i] = FetchData(c)[1]
    ELSE IF c.kind = "SearchResults"
    THEN \E i \in 1..Len(o.results) : o.results[i] = ResultText(0, o.value)
    ELSE FALSE

\* what the assertions of a test look at in an output: the label, the list
\* items, the input value and, of the results, the first
\* (screen.getByText(firstResult))
Seen(o) == [o EXCEPT !.results = SubSeq(@, 1, IF @ = <<>> THEN 0 ELSE 1)]

\* the record of an operation that took world w0 to world w1
Op(name, done, cb, w0, w1) ==
    [ op |-> name, done |-> done, cb |-> cb,
      calls |-> w1.calls, same |-> w1.same, passes |-> w1.passes,
      result |-> w1.err,
      pre |-> Seen(w0.out), preCount |-> w0.cells.count, preTitle |-> w0.title,
      start |-> w0.clock, timeout |-> 0, interval |-> 0,
      runs |-> 0, errRun |-> 0 ]

Put(w) ==
    /\ comp' = w.comp
    /\ mounted' = w.mounted
    /\ cells' = w.cells
    /\ pendQ' = w.pendQ
    /\ out' = w.out
    /\ title' = w.title
    /\ effectQ' = w.effectQ
    /\ deps' = w.deps
    /\ microQ' = w.microQ
    /\ timers' = w.timers
    /\ clock' = w.clock
    /\ fetched' = w.fetched
    /\ value' = w.value

Init ==
    /\ comp \in Comps
    /\ mounted = "no"
    /\ cells = InitCells
    /\ pendQ = <<>>
    /\ out = NoOut
    /\ title = <<>>
    /\ effectQ = <<>>
    /\ deps = NoDeps
    /\ microQ = <<>>
    /\ timers = <<>>
    /\ clock = 0
    /\ fetched = 0
    /\ value = InitValue
    /\ pc = "sync"
    /\ steps = 0
    /\ last = Op("none", TRUE, NoCallback, World, World)

\* a waitFor the test called without awaiting it has not settled
Detached == last.op = "waitFor" /\ ~last.done

\* the test goes on to its next statement; a waitFor that is not awaited is
\* the last statement of its test
Statement == pc = "sync" /\ steps < MaxSteps /\ ~Detached

\* ReactDOM.render(<C />, container), not wrapped in act
MountRaw ==
    /\ Statement
    /\ mounted = "no"
    /\ LET w == Commit(Mount(World))
       IN  /\ Put(w)
           /\ last' = Op("mount", TRUE, NoCallback, World, w)
           /\ pc' = IF w.err = "none" THEN pc ELSE "failed"
    /\ steps' = steps + 1

\* button.dispatchEvent(new MouseEvent("click", ...)), not wrapped in act
DispatchRaw ==
    /\ Statement
    /\ mounted = "yes"
    /\ \E evs \in EventSeqs(World, 1) :
         LET w == Commit(RunEvents(World, evs))
         IN  /\ Put(w)
             /\ last' = Op("event", TRUE, [k |-> "events", evs |-> evs], World, w)
             /\ pc' = IF w.err = "none" THEN pc ELSE "failed"
    /\ steps' = steps + 1

\* act(() => { ... }); render(...), userEvent.click(...) of the testing library
ActSync ==
    /\ Statement
    /\ \E cb \in Callbacks(World) :
         LET w == FlushSync(World, cb)
         IN  /\ Put(w)
             /\ last' = Op("flushSync", TRUE, cb, World, w)
             /\ pc' = IF w.err = "none" THEN "sync" ELSE "failed"
    /\ steps' = steps + 1

\* await act(async () => { ... }): the callback runs, the test suspends;
\* an exception of the callback rejects the flush
ActAsyncBegin ==
    /\ Statement
    /\ \E cb \in Callbacks(World) :
         LET w == Commit(RunCallback(World, cb))
         IN  /\ Put(w)
             /\ last' = Op("flushAsync", w.err # "none", cb, World, w)
             /\ pc' = IF w.err = "none" THEN "awaitAct" ELSE "failed"
    /\ steps' = steps + 1

\* the awaited act at a microtask boundary: it drains, and resolves when
\* the drain left no microtask behind
ActResolve ==
    /\ pc = "awaitAct"
    /\ microQ = <<>>
    /\ LET w == Drain(World, 0)
       IN  /\ Put(w)
           /\ pc' = IF w.err # "none" THEN "failed"
                    ELSE IF w.microQ = <<>> THEN "sync" ELSE pc
           /\ last' = [last EXCEPT !.done = (w.err # "none" \/ w.microQ = <<>>),
                                   !.result = w.err,
                                   !.passes = @ + w.passes]
    /\ steps' = steps

\* return Promise.resolve().then(() => { ... })
AwaitMicrotask ==
    /\ Statement
    /\ microQ' = Append(microQ, MkMicro("resume", 0))
    /\ pc' = "awaitTick"
    /\ steps' = steps + 1
    /\ last' = Op("tick", FALSE, NoCallback, World, World)
    /\ UNCHANGED <<comp, mounted, cells, pendQ, out, title, effectQ, deps,
                   timers, clock, fetched, value>>

\* await new Promise((resolve) => setTimeout(resolve))
AwaitTimer ==
    /\ Statement
    /\ timers' = Append(timers, MkTimer("resume", clock, "", 0))
    /\ pc' = "awaitTimer"
    /\ steps' = steps + 1
    /\ last' = Op("timer", FALSE, NoCallback, World, World)
    /\ UNCHANGED <<comp, mounted, cells, pendQ, out, title, effectQ, deps,
                   microQ, clock, fetched, value>>

\* a then that runs its callback in the frame that chains it
PromiseThenInline ==
    /\ Statement
    /\ value' = ResolvedValue
    /\ pc' = pc
    /\ steps' = steps + 1
    /\ last' = Op("then", TRUE, NoCallback, World, World)
    /\ UNCHANGED <<comp, mounted, cells, pendQ, out, title, effectQ, deps,
                   microQ, timers, clock, fetched>>

\* Promise.resolve(2).then((result) => { value = result }), not returned:
\* the test goes on synchronously
PromiseThen ==
    /\ Statement
    /\ microQ' = Append(microQ, MkMicro("assign", ResolvedValue))
    /\ pc' = pc
    /\ steps' = steps + 1
    /\ last' = Op("then", TRUE, NoCallback, World, World)
    /\ UNCHANGED <<comp, mounted, cells, pendQ, out, title, effectQ, deps,
                   timers, clock, fetched, value>>

\* return Promise.resolve(2).then((result) => { value = result })
\*                          .then(() => { expect(value).toBe(2) })
PromiseThenThen ==
    /\ Statement
    /\ microQ' = Append(microQ, MkMicro("assignThen", ResolvedValue))
    /\ pc' = "awaitTick"
    /\ steps' = steps + 1
    /\ last' = Op("thenThen", FALSE, NoCallback, World, World)
    /\ UNCHANGED <<comp, mounted, cells, pendQ, out, title, effectQ, deps,
                   timers, clock, fetched, value>>

\* value = await Promise.resolve(2)
PromiseAwait ==
    /\ Statement
    /\ microQ' = Append(microQ, MkMicro("assignResume", ResolvedValue))
    /\ pc' = "awaitTick"
    /\ steps' = steps + 1
    /\ last' = Op("await", FALSE, NoCallback, World, World)
    /\ UNCHANGED <<comp, mounted, cells, pendQ, out, title, effectQ, deps,
                   timers, clock, fetched, value>>

\* waitFor(() => { expect(screen.getByText(...)).toBeTruthy() }, opts),
\* awaited or not: drain, evaluate; when the predicate throws, start
\* polling, and the test waits for the outcome only when it awaits it
WaitForBegin ==
    /\ Statement
    /\ mounted = "yes"
    /\ comp.kind \in {"TodoList", "Names", "SearchResults"}
    /\ \E o \in WaitOpts :
         LET w  == Drain(World, 0)
             ok == Expect(w.comp, w.out)
             r  == [Op("waitFor", ok, NoCallback, World, w) EXCEPT
                      !.timeout = o.timeout, !.interval = o.interval, !.runs = 1]
         IN  IF ok
             THEN /\ Put(w)
                  /\ last' = [r EXCEPT !.result = "resolved"]
                  /\ pc' = "sync"
             ELSE /\ Put([w EXCEPT !.timers = @ \o
                            << MkTimer("timeout", w.clock + o.timeout, "", 0),
                               MkTimer("poll", w.clock + o.interval, "", 0) >>])
                  /\ last' = [r EXCEPT !.errRun = 1]
                  /\ \E awaited \in BOOLEAN :
                       pc' = IF awaited THEN "waitFor" ELSE "sync"
    /\ steps' = steps + 1

\* act(() => { ReactDOM.render(<TodoList fetchTodos={f} />, container) })
\* on the mounted list, with any of the fetch functions that resolve with
\* the mocked todos (the one it has included)
RerenderSync ==
    /\ Statement
    /\ mounted = "yes"
    /\ comp.kind = "TodoList" /\ comp.fetch.delay = NoDelay
    /\ \E f \in { g \in Fetches : g.delay = NoDelay } :
         LET w == Drain(Rerender(World, f), 0)
         IN  /\ Put(w)
             /\ last' = Op("rerender", TRUE, NoCallback, World, w)
             /\ pc' = IF w.err = "none" THEN "sync" ELSE "failed"
    /\ steps' = steps + 1

\* teardown of the component instance, by the test or, once the test has
\* failed, by the cleanup that follows it
Unmount ==
    /\ Statement \/ (pc = "failed" /\ steps < MaxSteps)
    /\ mounted = "yes"
    /\ mounted' = "torn"
    /\ out' = NoOut
    /\ pendQ' = <<>>
    /\ effectQ' = <<>>
    /\ last' = Op("unmount", TRUE, NoCallback, World, World)
    /\ steps' = steps + 1
    /\ UNCHANGED <<comp, cells, title, deps, microQ, timers, clock, fetched,
                   value, pc>>

\* the test function returns: after its last statement, which may be a
\* waitFor it neither returned nor awaited and that is still retrying
Finish ==
    /\ pc = "sync"
    /\ pc' = "done"
    /\ UNCHANGED <<comp, mounted, cells, pendQ, out, title, effectQ, deps,
                   microQ, timers, clock, fetched, value, steps, last>>

(***************************************************************************)
(* The event loop: microtasks first, then the awaited act, then timers.     *)
(***************************************************************************)
MicroReady == pc # "sync" /\ microQ # <<>>

\* the continuation of a fetch function after one of its awaits
MicroChain ==
    /\ MicroReady
    /\ Head(microQ).k = "chain" /\ Head(microQ).n > 0
    /\ microQ' = Append(Tail(microQ), MkMicro("chain", Head(microQ).n - 1))
    /\ UNCHANGED <<comp, mounted, cells, pendQ, out, title, effectQ, deps,
                   timers, clock, fetched, value, pc, steps, last>>

\* the then-callback of the fetch promise: the setter, outside any batch
MicroThen ==
    /\ MicroReady
    /\ Head(microQ).k = "chain" /\ Head(microQ).n = 0
    /\ Put(Commit(ThenCallback([World EXCEPT !.microQ = Tail(@)])))
    /\ UNCHANGED <<pc, steps, last>>

\* the test's own then-callback
MicroResume ==
    /\ MicroReady
    /\ Head(microQ).k = "resume"
    /\ microQ' = Tail(microQ)
    /\ pc' = "sync"
    /\ last' = [last EXCEPT !.done = TRUE]
    /\ UNCHANGED <<comp, mounted, cells, pendQ, out, title, effectQ, deps,
                   timers, clock, fetched, value, steps>>

\* the then-callback of a promise test: value = result; the callback chained
\* after it is queued when it has run; the continuation of an await goes on
\* with the test
MicroAssign ==
    /\ MicroReady
    /\ Head(microQ).k \in {"assign", "assignThen", "assignResume"}
    /\ value' = Head(microQ).n
    /\ microQ' = IF Head(microQ).k = "assignThen"
                 THEN Append(Tail(microQ), MkMicro("resume", 0))
                 ELSE Tail(microQ)
    /\ pc' = IF Head(microQ).k = "assignResume" THEN "sync" ELSE pc
    /\ last' = IF Head(microQ).k = "assignResume"
               THEN [last EXCEPT !.done = TRUE] ELSE last
    /\ UNCHANGED <<comp, mounted, cells, pendQ, out, title, effectQ, deps,
                   timers, clock, fetched, steps>>

\* a timer queue that does not wait for the microtasks
TimerReadyEarly(k) ==
    /\ pc \notin {"sync", "awaitAct"}
    /\ timers # <<>>
    /\ timers[NextTimer(timers)].k = k

TimerReady(k) ==
    /\ pc \notin {"sync", "awaitAct"}
    /\ microQ = <<>>
    /\ timers # <<>>
    /\ timers[NextTimer(timers)].k = k

\* the world when the next timer fires, the timer removed from the queue
Fired ==
    LET i == NextTimer(timers)
    IN  [World EXCEPT !.timers = RemoveAt(timers, i),
                      !.clock = Max(clock, timers[i].due)]

\* setTimeout(() => resolve(fakeTodos), delay) of a delayed fetch
TimerData ==
    /\ TimerReady("data")
    /\ Put([Fired EXCEPT !.microQ =
              Append(@, MkMicro("chain", timers[NextTimer(timers)].n))])
    /\ UNCHANGED <<pc, steps, last>>

\* the callback SearchResults scheduled
TimerResults ==
    /\ TimerReady("results")
    /\ \E len \in ResultLens :
         Put(Commit(SearchTimerCallback(Fired, timers[NextTimer(timers)].val, len)))
    /\ UNCHANGED <<pc, steps, last>>

\* the task that drains the effects queued outside a flush
TimerPassive ==
    /\ TimerReady("passive")
    /\ Put(Commit(RunEffects(Fired)))
    /\ UNCHANGED <<pc, steps, last>>

\* the test's own timer
TimerResume ==
    /\ TimerReady("resume")
    /\ Put(Fired)
    /\ pc' = IF pc = "awaitTimer" THEN "sync" ELSE pc
    /\ last' = [last EXCEPT !.done = TRUE]
    /\ steps' = steps

\* one poll of waitFor: drain, evaluate the predicate again
WaitForPoll ==
    /\ TimerReady("poll")
    /\ LET w  == Drain(Fired, 0)
           ok == Expect(w.comp, w.out)
       IN  IF ok
           THEN /\ Put([w EXCEPT !.timers = DropTimers(@, {"timeout"})])
                /\ last' = [last EXCEPT !.done = TRUE, !.result = "resolved",
                                        !.runs = @ + 1]
                /\ pc' = IF pc = "waitFor" THEN "sync" ELSE pc
           ELSE /\ Put([w EXCEPT !.timers =
                          Append(@, MkTimer("poll", w.clock + last.interval, "", 0))])
                /\ last' = [last EXCEPT !.runs = @ + 1, !.errRun = last.runs + 1]
                /\ pc' = pc
    /\ steps' = steps

\* the bound of waitFor has elapsed: it stops polling and fails
WaitForTimeout ==
    /\ TimerReady("timeout")
    /\ Put([Fired EXCEPT !.timers = DropTimers(@, {"poll"})])
    /\ last' = [last EXCEPT !.done = TRUE, !.result = "TimeoutError"]
    /\ pc' = IF pc = "waitFor" THEN "failed" ELSE pc
    /\ steps' = steps

Next ==
    \/ MountRaw
    \/ DispatchRaw
    \/ ActSync
    \/ ActAsyncBegin
    \/ ActResolve
    \/ AwaitMicrotask
    \/ AwaitTimer
    \/ PromiseThen
    \/ PromiseThenThen
    \/ PromiseAwait
    \/ WaitForBegin
    \/ RerenderSync
    \/ Unmount
    \/ Finish
    \/ MicroChain
    \/ MicroThen
    \/ MicroResume
    \/ MicroAssign
    \/ TimerData
    \/ TimerResults
    \/ TimerPassive
    \/ TimerResume
    \/ WaitForPoll
    \/ WaitForTimeout

Spec == Init /\ [][Next]_vars

(***************************************************************************)
(* Properties.                                                              *)
(***************************************************************************)
\* the test is at the statement after an operation that returned normally
Returned(name) == pc = "sync" /\ last.op = name /\ last.done

\* the operation's callback dispatched events
OfEvents == last.cb.k = "events"

\* C1: when flushSync returns, the renders its callback enqueued are
\* committed and the effects due have run: both queues are empty, the output
\* of the mounted component is the rendering of the committed state, the
\* counter's title equals its label; one increment of a counter showing 0
\* leaves label and title at 1.
C1_FlushSyncSettles ==
    Returned("flushSync") =>
        /\ pendQ = <<>>
        /\ effectQ = <<>>
        /\ out = IF mounted = "yes" THEN RenderOut(comp, cells) ELSE NoOut
        /\ (comp.kind = "Counter" /\ mounted = "yes") => title = out.label
        /\ (comp.kind = "Counter" /\ OfEvents /\ Len(last.cb.evs) = 1 /\ last.preCount = 0)
             => (out.label = Text(1) /\ title = Text(1))

C1_Witness ==
    /\ Returned("flushSync")
    /\ comp.kind = "Counter" /\ OfEvents /\ Len(last.cb.evs) = 1
    /\ last.preCount = 0 /\ last.pre.label = Text(0)
    /\ out.label = Text(1) /\ title = Text(1)

\* no flushSync, flushAsync or waitFor is in progress: the test awaits a bare
\* promise or timer, or has returned
OutsideFlush == pc \in {"awaitTick", "awaitTimer", "done", "failed"}

\* a step outside any flush in which a mounted component's setter is called
\* with a value its cell does not hold: the then-callback of a fetch or the
\* timer callback of the search box run while the test awaits a bare
\* promise or timer or has returned, or an event dispatched bare
SetterCallOutsideFlush ==
    /\ mounted = "yes" /\ mounted' = "yes"
    /\ \/ /\ OutsideFlush /\ MicroReady
          /\ Head(microQ) = MkMicro("chain", 0) /\ microQ' = Tail(microQ)
          /\ cells.items # FetchData(comp)
       \/ /\ OutsideFlush /\ TimerReady("results")
          /\ Len(timers') < Len(timers)
          /\ (timers[NextTimer(timers)].val # "" \/ cells.results # <<>>)
       \/ /\ pc = "sync" /\ steps' # steps /\ last'.op = "event"
          /\ last'.calls > last'.same

\* C2 as stated: after a setter call made outside any flush the output
\* still shows the pre-update value (and stays so until the next flushSync,
\* flushAsync or waitFor tick): the step that makes the call leaves the
\* output as it was and the update recorded.
C2_StaleUntilFlush ==
    [][ SetterCallOutsideFlush => (out' = out /\ pendQ' # <<>>) ]_vars

\* C2, what the code does: output observed right after an action whose
\* setter call is still behind a promise or a timer shows the pre-update
\* value, and inside an event handler or a flush callback the setter does
\* not render (the calls of one callback are followed by one render pass at
\* most).  But a setter called outside any flush does not wait for a flush:
\* called in a promise or timer callback its update is committed to the
\* output in that same task, and called in the handler of an event
\* dispatched bare it is committed when the dispatch returns.
C2_CommitsInTask ==
    [][ /\ ( /\ pc = "sync" /\ pc' = "sync" /\ steps' # steps
             /\ last'.op \in {"event", "flushSync"} /\ last'.cb.k = "events"
             /\ comp.kind \in {"Names", "SearchResults"} )
           => (out'.list = out.list /\ out'.results = out.results)
        /\ ( /\ pc = "sync" /\ pc' = "sync" /\ steps' # steps
             /\ last'.op \in {"event", "flushSync"} /\ last'.cb.k = "events"
             /\ comp.kind \in {"Counter", "Names", "SearchResults"} )
           => /\ last'.passes <= 1
              /\ last'.calls > last'.same => last'.passes = 1
        /\ ( /\ pc = "sync" /\ pc' = "sync" /\ steps' # steps
             /\ last'.op = "event" /\ mounted = "yes" )
           => /\ pendQ' = <<>>
              /\ out' = RenderOut(comp, cells')
              /\ comp.kind = "Counter"
                   => /\ cells'.count = cells.count + 1
                      /\ out'.label = Text(cells.count + 1)
              /\ comp.kind = "SearchResults"
                   => /\ out'.value = last'.cb.evs[1].val
                      /\ out'.value # out.value
        /\ ( /\ MicroReady /\ Head(microQ) = MkMicro("chain", 0)
             /\ mounted = "yes" /\ mounted' = "yes" )
           => /\ pendQ' = <<>>
              /\ out' = RenderOut(comp, cells')
              /\ cells'.items = FetchData(comp)
              /\ Len(out'.list) = Len(FetchData(comp))
        /\ (TimerReady("results") /\ mounted = "yes" /\ mounted' = "yes")
           => /\ pendQ' = <<>>
              /\ out' = RenderOut(comp, cells')
              /\ LET val == timers[NextTimer(timers)].val
                 IN  \E len \in ResultLens :
                       out'.results = IF val # "" THEN FakeResults(len, val) ELSE <<>>
      ]_vars

\* the output changed while the test awaited a bare promise, no flush run
C2_Witness ==
    /\ pc = "awaitTick" /\ last.op = "tick" /\ ~last.done
    /\ mounted = "yes"
    /\ last.pre.list = <<>> /\ out.list # <<>>

\* C3: however many setter calls the callback of a flushSync made on the
\* component in its synchronous frame (at least one of them changing a
\* value), the flush performs exactly one render pass: the updates coalesce.
C3_OneRenderPass ==
    (Returned("flushSync") /\ OfEvents /\ last.calls > last.same) => last.passes = 1

C3_Witness ==
    /\ Returned("flushSync") /\ OfEvents
    /\ last.calls >= 2 /\ last.passes = 1
    /\ Seen(out) # last.pre

\* C4: when flushAsync resolves, the update chained to the callback's work
\* through promises alone is in the output, whatever the number of promises
\* awaited before the setter; no microtask and no queued work is left.
C4_FlushAsyncSettlesPromises ==
    (Returned("flushAsync") /\ mounted = "yes") =>
        /\ microQ = <<>> /\ pendQ = <<>> /\ effectQ = <<>>
        /\ ( /\ comp.fetch.delay = NoDelay
             /\ \/ comp.kind = "TodoList" /\ last.cb.k = "mount"
                \/ comp.kind = "Names" /\ OfEvents )
             => /\ Expect(comp, out)
                /\ cells.items = FetchData(comp)
                /\ out = RenderOut(comp, cells)

\* the fetch awaited additional promises and the list is there all the same
C4_Witness ==
    /\ Returned("flushAsync") /\ last.cb.k = "mount"
    /\ comp.kind = "TodoList" /\ comp.fetch.delay = NoDelay /\ comp.fetch.depth >= 2
    /\ last.pre.list = <<>> /\ out.list = Titles(MockTodos)

\* a timer of the given kind and value is still pending
Pending(k, val) == \E i \in 1..Len(timers) : timers[i].k = k /\ timers[i].val = val

\* C5: an update deferred through a timer is still pending when flushAsync
\* resolves: no step of an awaited flush that typed into the search box,
\* from its callback to its resolution, changes the results, so when it has
\* resolved the results in the output are those from before the flush and
\* the timer callback of the change has not fired; after the test awaited
\* one zero-delay timer every such callback has fired and the results of
\* the value typed are in the output.
C5_TimerOutlivesFlushAsync ==
    /\ [][ ( /\ comp.kind = "SearchResults" /\ last'.op = "flushAsync"
             /\ pc \in {"sync", "awaitAct"} /\ pc' \in {"sync", "awaitAct"} )
           => (out'.results = out.results /\ cells'.results = cells.results)
       ]_vars
    /\ []( (Returned("flushAsync") /\ comp.kind = "SearchResults" /\ OfEvents)
           => /\ Seen(out).results = last.pre.results
              /\ out.value = last.cb.evs[Len(last.cb.evs)].val
              /\ Pending("results", out.value)
              /\ last.pre.results = <<>> => ~Expect(comp, out) )
    /\ []( (Returned("timer") /\ comp.kind = "SearchResults" /\ mounted = "yes")
           => /\ ~HasTimer(World, "results")
              /\ out.value # "" => Expect(comp, out)
              /\ out.value = "" => out.results = <<>> )

C5_Witness ==
    /\ Returned("flushAsync") /\ comp.kind = "SearchResults" /\ OfEvents
    /\ out.value # "" /\ out.results = <<>>
    /\ Pending("results", out.value)

\* the least n with n * d >= a, for a >= 0 and d > 0
CeilDiv(a, d) == (a + d - 1) \div d

\* the polling intervals after which the predicate of the last waitFor first
\* succeeds, for a todo list fetched when the test started
PollsNeeded ==
    IF Expect(comp, last.pre) THEN 0
    ELSE IF comp.fetch.delay = NoDelay THEN 1
    ELSE CeilDiv(comp.fetch.delay, last.interval)

\* a waitFor on the todo list, begun when the test started, has ended
WaitForEnded ==
    /\ last.op = "waitFor" /\ last.done /\ pc \in {"sync", "failed", "done"}
    /\ comp.kind = "TodoList" /\ last.start = 0

\* C6: waitFor retries until success or timeout: when the predicate first
\* succeeds after N polling intervals it resolves (after N + 1 evaluations)
\* if N * interval < timeout and fails with TimeoutError otherwise; with the
\* default second, data after 500 ms resolves and data after 2 s fails;
\* with timeout 2500 and interval 500, data after 2 s resolves.
C6_WaitForBound ==
    WaitForEnded =>
        /\ last.result = "resolved" <=> PollsNeeded * last.interval < last.timeout
        /\ last.result = "resolved"
             => (pc \in {"sync", "done"} /\ last.runs = PollsNeeded + 1)
        /\ last.result # "resolved"
             => (pc \in {"failed", "done"} /\ last.result = "TimeoutError")
        /\ (last.timeout = DefaultTimeout /\ comp.fetch.delay = FetchDelayShort)
             => last.result = "resolved"
        /\ (last.timeout = DefaultTimeout /\ comp.fetch.delay = FetchDelayLong)
             => last.result = "TimeoutError"
        /\ ( /\ last.timeout = OverrideTimeout /\ last.interval = OverrideInterval
             /\ comp.fetch.delay = FetchDelayLong )
             => last.result = "resolved"

C6_Witness ==
    /\ WaitForEnded
    /\ comp.fetch.delay = FetchDelayLong
    /\ last.timeout = OverrideTimeout /\ last.interval = OverrideInterval
    /\ last.result = "resolved" /\ last.runs = 5
    /\ clock = FetchDelayLong

\* C7: a throwing predicate never fails waitFor before the timeout: while
\* waitFor is pending every evaluation so far has thrown; it resolves at
\* the first evaluation that does not throw, before the bound; it fails only
\* once the bound has elapsed, carrying the error of the last evaluation;
\* with promise-chained data the first throw is followed by success.
C7_ThrowMeansRetry ==
    last.op = "waitFor" =>
        /\ ~last.done =>
             /\ pc \in {"waitFor", "sync", "done"}
             /\ last.result = "none"
             /\ last.errRun = last.runs
             /\ clock <= last.start + last.timeout
        /\ Returned("waitFor") =>
             /\ last.result = "resolved"
             /\ Expect(comp, out)
             /\ last.errRun = last.runs - 1
             /\ clock < last.start + last.timeout
        /\ last.result = "TimeoutError" =>
             /\ pc \in {"failed", "done"}
             /\ last.errRun = last.runs
             /\ last.runs >= 1
             /\ clock >= last.start + last.timeout
        /\ pc = "failed" => last.result = "TimeoutError"
        /\ (last.done /\ comp.kind = "TodoList" /\ comp.fetch.delay = NoDelay)
             => last.result = "resolved"

\* the predicate threw, was retried, and waitFor resolved
C7_Witness ==
    /\ Returned("waitFor")
    /\ comp.kind = "TodoList" /\ comp.fetch.depth >= 2
    /\ last.errRun >= 1 /\ last.runs = last.errRun + 1
    /\ last.result = "resolved"

\* a step in which waitFor evaluates its predicate
WaitForEvaluates ==
    last'.op = "waitFor" /\ (steps' # steps \/ last'.runs # last.runs)

\* C8: every evaluation of waitFor's predicate comes after a drain (no
\* render and no effect is pending, the output is the rendering of the
\* state) and decides the outcome on that output; so waitFor on the search
\* box, whose results a timer callback sets, resolves once a value was typed.
C8_PollDrainsFirst ==
    /\ [][ WaitForEvaluates =>
             /\ pendQ' = <<>> /\ effectQ' = <<>>
             /\ out' = RenderOut(comp, cells')
             /\ last'.result = "resolved" <=> Expect(comp, out') ]_vars
    /\ []( ( /\ last.op = "waitFor" /\ last.done /\ pc \in {"sync", "failed", "done"}
             /\ comp.kind = "SearchResults" /\ out.value # "" )
           => (last.result = "resolved" /\ Expect(comp, out)) )

\* the results were set by the timer callback between two polls
C8_Witness ==
    /\ Returned("waitFor") /\ comp.kind = "SearchResults"
    /\ last.pre.results = <<>> /\ last.runs >= 2
    /\ out.value # "" /\ Expect(comp, out)
    /\ last.result = "resolved"

\* the ways a flushSync on the component can end: normally, with the
\* overflow of the drain, or with the exception one of the component's
\* callbacks throws
FlushOutcomes ==
    {"none", "ScheduleOverflowError"}
    \cup (IF comp.kind \in ThrowingKinds THEN AppErrors ELSE {})

\* C9: flushSync always ends: in every state and for every callback it either returns with
\* both queues empty, work enqueued by effects during the drain included, or
\* fails with ScheduleOverflowError once the drain would pass the cap (or
\* with the exception a callback of the component threw); it
\* never returns normally with a queue non-empty and never makes more than
\* MaxPasses passes.  A component whose effect sets state until a target is
\* drained in target + 1 passes, and overflows exactly when that exceeds
\* the cap.
C9_FlushSyncTerminates ==
    /\ Statement =>
         \A cb \in Callbacks(World) :
            LET w == FlushSync(World, cb)
            IN  /\ w.passes <= MaxPasses
                /\ w.err \in FlushOutcomes
                /\ w.err = "none" => (w.pendQ = <<>> /\ w.effectQ = <<>>)
    /\ last.op = "flushSync" =>
         /\ last.passes <= MaxPasses
         /\ last.result \in FlushOutcomes
         /\ last.result # "none" <=> pc = "failed"
         /\ pc = "sync" => (pendQ = <<>> /\ effectQ = <<>>)
         /\ (comp.kind = "Cascade" /\ last.cb.k = "mount") =>
              /\ last.result = "ScheduleOverflowError" <=> comp.target + 1 > MaxPasses
              /\ pc = "sync" => (cells.count = comp.target /\ last.passes = comp.target + 1)

\* the drain met the cap with work still queued
C9_Witness ==
    /\ last.op = "flushSync" /\ pc = "failed"
    /\ last.result = "ScheduleOverflowError"
    /\ last.passes = MaxPasses
    /\ pendQ # <<>>

\* C10: an updater runs against the latest pending value: k increments of
\* the counter dispatched in one synchronous frame leave the committed count
\* at the count before plus k once the flush has drained.
C10_UpdaterSeesPending ==
    (Returned("flushSync") /\ comp.kind = "Counter" /\ OfEvents) =>
        /\ last.calls = Len(last.cb.evs)
        /\ cells.count = last.preCount + Len(last.cb.evs)
        /\ out.label = Text(last.preCount + Len(last.cb.evs))

C10_Witness ==
    /\ Returned("flushSync") /\ comp.kind = "Counter" /\ OfEvents
    /\ Len(last.cb.evs) >= 2
    /\ cells.count = last.preCount + Len(last.cb.evs)
    /\ out.label # last.pre.label

\* the setter calls the events of an operation's callback make on Once
EventCalls(cb) == IF cb.k = "events" THEN Len(cb.evs) ELSE 0

\* C11: an effect is queued after a render pass according to its dependency
\* list.  Without a list (Counter's title effect) it is queued after every
\* render: each step that mounts the counter or changes its count leaves the
\* effect of the new count queued or already run, and no other step queues
\* one.  With the empty list (Once) it is queued at the mount and never
\* again: later renders leave the queue as it was and the only setter calls
\* are those of the events.  With the list [fetchTodos] (TodoList) the fetch
\* effects queued so far, run or waiting, grow by one when the list mounts
\* or is rendered with another fetchTodos, and not at all when it renders
\* with the fetchTodos recorded at the previous render.
C11_EffectDeps ==
    [][ mounted' = "yes" =>
          /\ comp.kind = "Counter" =>
                IF mounted = "no" \/ cells'.count # cells.count
                THEN \/ effectQ' = << MkEffect("title", cells'.count) >>
                     \/ effectQ' = <<>> /\ title' = Text(cells'.count)
                ELSE Len(effectQ') <= Len(effectQ)
          /\ comp.kind = "Once" =>
                IF mounted = "no"
                THEN \/ effectQ' = << MkEffect("once", 0) >> /\ cells'.count = 0
                     \/ effectQ' = <<>> /\ cells'.count = 1 /\ last'.calls = 1
                ELSE /\ Len(effectQ') <= Len(effectQ)
                     /\ (steps' # steps /\ effectQ = <<>>)
                          => last'.calls = EventCalls(last'.cb)
          /\ comp.kind = "TodoList" =>
                fetched' + Len(effectQ') =
                    fetched + Len(effectQ)
                    + (IF mounted = "no" \/ comp'.fetch # comp.fetch THEN 1 ELSE 0)
      ]_vars

\* the list was rendered with its data and then with another fetchTodos:
\* the effect ran a second time
C11_Witness ==
    /\ Returned("rerender") /\ comp.kind = "TodoList"
    /\ last.pre.list = Titles(MockTodos)
    /\ fetched = 2 /\ effectQ = <<>>

\* C12: the name list, its fetch mocked to resolve with the names.  At the
\* statement after the load action, dispatched bare or inside flushSync, a
\* list that was empty is still empty: the update is behind the promise.
\* When the load action was triggered inside flushAsync, every fetched name
\* is in the output once the flush has resolved.
C12_NamesLoad ==
    (comp.kind = "Names" /\ comp.fetch.delay = NoDelay /\ OfEvents) =>
        /\ ((Returned("event") \/ Returned("flushSync")) /\ last.pre.list = <<>>)
             => (out.list = <<>> /\ fetched >= 1)
        /\ (Returned("flushAsync") /\ mounted = "yes")
             => /\ out.list = MockNames
                /\ \A i \in 1..Len(MockNames) :
                      \E j \in 1..Len(out.list) : out.list[j] = MockNames[i]

C12_Witness ==
    /\ Returned("flushAsync") /\ comp.kind = "Names" /\ OfEvents
    /\ comp.fetch.delay = NoDelay
    /\ last.pre.list = <<>> /\ out.list = MockNames

\* a then-callback of the promise tests is queued
AssignQueued ==
    \E i \in 1..Len(microQ) : microQ[i].k \in {"assign", "assignThen", "assignResume"}

\* C13: a callback chained with then on an already-resolved promise never
\* runs inside the synchronous frame that chained it: while the test runs
\* synchronously no step runs a queued callback (the queue only grows, the
\* variable and the fetched items keep their values), so the variable has
\* its old value at every later statement of the frame; in a callback
\* chained after it on the same promise, and after awaiting the promise, it
\* has the new value.
C13_ThenRunsLater ==
    /\ [][ pc = "sync" =>
             /\ value' = value
             /\ cells'.items = cells.items
             /\ Len(microQ') >= Len(microQ)
             /\ SubSeq(microQ', 1, Len(microQ)) = microQ ]_vars
    /\ []( (Returned("thenThen") \/ Returned("await")) => value = ResolvedValue )
    /\ []( (value = InitValue /\ last.op \in {"then", "thenThen", "await"})
           => (AssignQueued /\ (last.op = "then" \/ ~last.done)) )

\* the test chained the callback and has executed another statement since:
\* the callback is still queued and the variable has its old value
C13_Witness ==
    /\ pc = "sync" /\ steps >= 2
    /\ last.op = "flushSync"
    /\ AssignQueued
    /\ value = InitValue

\* q is an initial part of r
IsPrefix(q, r) == Len(q) <= Len(r) /\ SubSeq(r, 1, Len(q)) = q

\* C14: all pending microtasks run before any timer callback: while a
\* microtask is queued and the test is not running synchronously, the next
\* step runs the first microtask and takes no timer (the timer queue only
\* grows, the clock stands still).  So an observer that waits for one
\* zero-delay timer finds the microtask queue empty and, when the todo list
\* was mounted with a fetch chained through any number of promises, finds
\* the todos in the output.
C14_MicrotasksBeforeTimers ==
    /\ [][ (pc # "sync" /\ microQ # <<>>) =>
             /\ clock' = clock
             /\ IsPrefix(timers, timers')
             /\ IsPrefix(Tail(microQ), microQ') ]_vars
    /\ []( Returned("timer") =>
             /\ microQ = <<>>
             /\ ( /\ comp.kind = "TodoList" /\ comp.fetch.delay = NoDelay
                  /\ mounted = "yes" /\ fetched >= 1 )
                  => (Expect(comp, out) /\ out.list = Titles(MockTodos)) )

\* the extra promises resolved before the observer's timer fired
C14_Witness ==
    /\ Returned("timer")
    /\ comp.kind = "TodoList" /\ comp.fetch.delay = NoDelay
    /\ comp.fetch.depth = MaxChain
    /\ last.pre.list = <<>> /\ out.list = Titles(MockTodos)

\* the test rendered the todo list with a promise-chained fetch (the effect
\* has run), then waited one microtask, and is at the statement after it
OneMicrotaskAfterRender ==
    /\ Returned("tick") /\ steps = 2
    /\ comp.kind = "TodoList" /\ comp.fetch.delay = NoDelay
    /\ mounted = "yes" /\ fetched = 1
    /\ last.pre.list = <<>>

\* C15: an observer that waits exactly one microtask after rendering the
\* todo list sees the todos when the setter is chained through the fetch
\* promise alone, and does not see them when the fetch awaits an additional
\* promise first: the then-callback is then still queued.
C15_OneMicrotask ==
    OneMicrotaskAfterRender =>
        /\ comp.fetch.depth = 0
             => (Expect(comp, out) /\ out.list = Titles(MockTodos) /\ microQ = <<>>)
        /\ comp.fetch.depth >= 1
             => (~Expect(comp, out) /\ out.list = <<>> /\ microQ # <<>>)

C15_Witness ==
    /\ OneMicrotaskAfterRender
    /\ comp.fetch.depth = 1
    /\ out.list = <<>>
    /\ microQ = << MkMicro("chain", 0) >>

\* C16: effects are drained asynchronously when no flush is used: at the
\* statement after a bare render, or after an event dispatched bare that
\* rendered, the effect of that render is still queued, to be run by a task
\* of its own; so the counter's title does not equal its new label, and a
\* todo list rendered bare has not called its fetch.
C16_EffectsDeferred ==
    /\ Returned("mount") =>
         /\ effectQ = EffectsOf(comp, cells)
         /\ effectQ # <<>> => HasTimer(World, "passive")
         /\ fetched = 0
    /\ ((Returned("mount") \/ Returned("event")) /\ comp.kind = "Counter") =>
         /\ out.label = Text(cells.count)
         /\ effectQ = << MkEffect("title", cells.count) >>
         /\ HasTimer(World, "passive")
         /\ title # out.label

\* the click of a counter rendered inside a flush was dispatched bare
C16_Witness ==
    /\ Returned("event") /\ comp.kind = "Counter"
    /\ last.pre.label = Text(0) /\ last.preTitle = Text(0)
    /\ out.label = Text(1) /\ title = Text(0)

\* the fetch started by the effect is in flight: its then-callback, a
\* continuation of the fetch function or its timer is queued
FetchInFlight ==
    \/ \E i \in 1..Len(microQ) : microQ[i].k = "chain"
    \/ HasTimer(World, "data")

\* C17: a synchronous flush does not wait for promises: when the flushSync
\* that mounted the todo list returns, the fetch effect has run (the fetch
\* was called once, in one render pass) but the todos are not in the
\* output: the setter is called only in the then-callback, which is still
\* ahead.
C17_SyncFlushAwaitsNothing ==
    (Returned("flushSync") /\ comp.kind = "TodoList" /\ last.cb.k = "mount") =>
        /\ fetched = 1 /\ effectQ = <<>>
        /\ last.passes = 1 /\ last.calls = 0
        /\ FetchInFlight
        /\ cells.items = <<>> /\ out.list = <<>>
        /\ ~Expect(comp, out)

C17_Witness ==
    /\ Returned("flushSync") /\ comp.kind = "TodoList" /\ last.cb.k = "mount"
    /\ comp.fetch = NoFetch
    /\ fetched = 1 /\ microQ = << MkMicro("chain", 0) >>
    /\ out.list = <<>>

\* the operation dispatched clicks at a Once whose count was at the value
\* its handler sets
SetsSameValue ==
    /\ comp.kind = "Once" /\ OfEvents
    /\ last.preCount = comp.target

\* C18: a setter called with a value equal to the cell's current value does
\* not enqueue the component: the calls are made and change nothing, the
\* flush that follows (the drain of the flushSync whose callback made them)
\* performs no render pass and queues no effect, and dispatched bare they
\* cause no render either; the output stays as it was.
C18_EqualValueNoEnqueue ==
    ((Returned("flushSync") \/ Returned("event")) /\ SetsSameValue) =>
        /\ last.calls = Len(last.cb.evs)
        /\ last.same = last.calls
        /\ last.passes = 0
        /\ pendQ = <<>> /\ effectQ = <<>>
        /\ cells.count = last.preCount
        /\ Seen(out) = last.pre

C18_Witness ==
    /\ Returned("flushSync") /\ SetsSameValue
    /\ Len(last.cb.evs) = MaxCalls
    /\ last.same = MaxCalls /\ last.passes = 0
    /\ out.label = << comp.target >>

\* C19: calling a setter of a component that has been torn down is a
\* no-op: every step taken after the teardown, the then-callbacks and timer
\* callbacks that call the setter included, leaves the state cells, the
\* output, the title and both queues as they were and fails nothing; a
\* flush after the teardown performs no render pass and returns normally.
C19_SetterAfterTeardown ==
    /\ [][ mounted = "torn" =>
             /\ mounted' = "torn"
             /\ cells' = cells /\ out' = out /\ title' = title
             /\ pendQ' = pendQ /\ effectQ' = effectQ
             /\ pc' = "failed" => pc = "failed"
             /\ steps' # steps => (last'.passes = 0 /\ last'.result = "none") ]_vars
    /\ []( mounted = "torn" => (out = NoOut /\ pendQ = <<>> /\ effectQ = <<>>) )

\* the fetch of a todo list torn down meanwhile has resolved and its
\* then-callback has called the setter, inside an awaited flush that has
\* resolved: the items are as they were
C19_Witness ==
    /\ mounted = "torn" /\ comp.kind = "TodoList"
    /\ fetched = 1 /\ ~FetchInFlight
    /\ cells.items = <<>> /\ out = NoOut
    /\ Returned("flushAsync") /\ last.passes = 0

\* the exception the component's callback throws
ErrorOf(c) == IF c.kind = "BadRender" THEN "RenderError" ELSE "EffectError"

\* a flush with callback cb, begun in the current state, runs a callback
\* that throws: its callback asks for the render of the target count (whose
\* render function, or whose effect, throws), or the effect of the target
\* count, queued by a bare render, is run by the flush
MeetsThrow(cb) ==
    \/ cb.k # "none" /\ cells.count + EventCalls(cb) = comp.target
    \/ /\ comp.kind = "BadEffect"
       /\ effectQ # <<>> /\ Head(effectQ).n = comp.target

\* C20: an exception thrown by a render function or an effect callback
\* during a flush propagates synchronously to the caller of that flush: a
\* flushSync that runs a throwing callback fails with that exception and one
\* that runs none returns normally; no flush, synchronous or awaited, is
\* reported successful after a callback threw: a render that throws is never
\* committed to the output, and after a flush that rendered and returned
\* the effect of the committed count has run without throwing.
C20_ExceptionsPropagate ==
    /\ [][ (comp.kind \in ThrowingKinds /\ steps' # steps /\ last'.op = "flushSync") =>
             IF MeetsThrow(last'.cb)
             THEN pc' = "failed" /\ last'.result = ErrorOf(comp)
             ELSE pc' = "sync" /\ last'.result = "none" ]_vars
    /\ []( last.op \in {"flushSync", "flushAsync"} =>
             /\ last.result # "none" <=> pc = "failed"
             /\ last.result \in AppErrors
                  => (comp.kind \in ThrowingKinds /\ last.result = ErrorOf(comp)) )
    /\ []( comp.kind = "BadRender" => out.label # << comp.target >> )
    /\ []( ( /\ comp.kind = "BadEffect" /\ mounted = "yes"
             /\ Returned("flushSync") \/ Returned("flushAsync")
             /\ last.passes >= 1 )
           => (effectQ = <<>> /\ cells.count # comp.target) )

\* the effect of the count rendered by the flush threw, and the flush failed
\* with its exception
C20_Witness ==
    /\ pc = "failed" /\ last.op = "flushSync" /\ OfEvents
    /\ comp.kind = "BadEffect" /\ comp.target = 1
    /\ last.result = "EffectError"
    /\ cells.count = comp.target

\* C21: within one flushSync call the coalesced updates of a render pass
\* become visible together.  The flush is one synchronous frame, so an
\* observer sees the output before it and the output after it: after a
\* flushSync whose callback dispatched events nothing is left pending, the
\* output is the rendering of the committed cells, and those hold every
\* update of the batch (the count advanced by the number of clicks, the
\* input at the last value typed).  In every state the output of a mounted
\* component is the rendering of its committed cells, or still empty.
C21_AtomicCommit ==
    /\ [][ ( /\ steps' # steps /\ last'.op = "flushSync"
             /\ last'.cb.k = "events" /\ pc' = "sync" ) =>
             /\ pendQ' = <<>>
             /\ out' = RenderOut(comp, cells')
             /\ comp.kind \in {"Counter"} \cup ThrowingKinds
                  => /\ cells'.count = cells.count + Len(last'.cb.evs)
                     /\ out'.label # out.label
             /\ comp.kind = "SearchResults"
                  => /\ cells'.input = last'.cb.evs[Len(last'.cb.evs)].val
                     /\ out'.value = cells'.input
                     /\ out'.results = out.results ]_vars
    /\ []( mounted = "yes" => out \in {NoOut, RenderOut(comp, cells)} )

\* two changes of the input were batched into one pass: the output shows
\* the second value and never showed the first
C21_Witness ==
    /\ Returned("flushSync") /\ comp.kind = "SearchResults" /\ OfEvents
    /\ Len(last.cb.evs) = 2 /\ last.passes = 1
    /\ last.cb.evs[1].val # last.pre.value
    /\ out.value = last.cb.evs[2].val /\ out.value # last.cb.evs[1].val

\* a waitFor on the mounted todo list has failed with TimeoutError
TimedOut ==
    /\ pc = "failed" /\ comp.kind = "TodoList"
    /\ \/ last.op = "waitFor" /\ last.result = "TimeoutError"
       \/ last.op = "unmount"

\* C22: after waitFor has failed with TimeoutError it evaluates its
\* predicate no more (no step is an evaluation, neither its polling timer
\* nor its timeout timer is left), but the timer of the fetch is not
\* cancelled: while the data has not been delivered the timer or the
\* then-callback it queues is still there, the timer fires at its own time
\* and the then-callback commits the todos, unless the instance
\* was torn down, and then the callback changes nothing.  Whatever is left
\* in the queues of a failed waitFor is the fetch's and is ready to run.
C22_TimerOutlivesWaitFor ==
    /\ [][ pc = "failed" =>
             /\ ~WaitForEvaluates
             /\ last' = last \/ last'.op = "unmount"
             /\ (TimedOut /\ timers' # timers)
                  => /\ timers[NextTimer(timers)].k = "data"
                     /\ clock' = timers[NextTimer(timers)].due
                     /\ clock' = comp.fetch.delay
                     /\ Len(microQ') = Len(microQ) + 1
             /\ (TimedOut /\ microQ # <<>> /\ Len(microQ') < Len(microQ))
                  => IF mounted = "yes"
                     THEN /\ out'.list = Titles(FetchData(comp))
                          /\ cells'.items = FetchData(comp)
                     ELSE /\ out' = NoOut /\ cells' = cells /\ pendQ' = <<>>
           ]_vars
    /\ []( pc = "failed" =>
             /\ ~HasTimer(World, "poll") /\ ~HasTimer(World, "timeout")
             /\ (TimedOut /\ mounted = "yes")
                  => \/ HasTimer(World, "data") /\ out.list = <<>>
                                               /\ clock < comp.fetch.delay
                     \/ microQ # <<>> /\ out.list = <<>>
                                     /\ clock = comp.fetch.delay
                     \/ out.list = Titles(FetchData(comp))
                          /\ clock = comp.fetch.delay )
    /\ []( TimedOut =>
             /\ (microQ = <<>> /\ timers # <<>>) => TimerReady("data")
             /\ microQ # <<>> => (MicroReady /\ Head(microQ).k = "chain") )

\* the todos delivered after 2 seconds are in the output of a list whose
\* waitFor failed at its bound of 1 second
C22_Witness ==
    /\ pc = "failed" /\ last.op = "waitFor" /\ last.result = "TimeoutError"
    /\ comp.kind = "TodoList" /\ comp.fetch.delay = FetchDelayLong
    /\ last.start = 0 /\ last.timeout = DefaultTimeout
    /\ mounted = "yes" /\ clock = FetchDelayLong
    /\ timers = <<>> /\ microQ = <<>>
    /\ out.list = Titles(FakeTodos)

\* the fetches started and not yet delivered: their timers and the
\* continuations and then-callbacks queued as microtasks
FetchesInFlight ==
    Cardinality({ i \in 1..Len(microQ) : microQ[i].k = "chain" })
    + Cardinality({ i \in 1..Len(timers) : timers[i].k = "data" })

\* a mounted todo list that was rendered with one fetchTodos only: one with
\* a delayed fetch (the test never renders it again), or any before the
\* second statement of the test
SameFetchTodos ==
    /\ comp.kind = "TodoList" /\ mounted = "yes"
    /\ comp.fetch.delay # NoDelay \/ steps <= 1

\* C23: the todo list starts its fetch once per mount while fetchTodos is
\* the same function.  The fetch effect was queued once and run at most
\* once; the fetch is in flight or its todos were set, never both and never
\* twice; the step that runs the then-callback sets the todos and renders
\* without queueing the effect or starting a fetch; once nothing of the
\* fetch is in flight the list is quiescent with the todos in its output,
\* as it is when the awaited flush that mounted it has resolved.
C23_FetchOncePerMount ==
    /\ []( SameFetchTodos =>
             /\ fetched + Len(effectQ) = 1
             /\ FetchesInFlight + (IF cells.items = FetchData(comp) THEN 1 ELSE 0)
                  = fetched
             /\ (fetched = 1 /\ FetchesInFlight = 0)
                  => /\ pendQ = <<>> /\ effectQ = <<>>
                     /\ out.list = Titles(FetchData(comp)) )
    /\ [][ ( /\ comp.kind = "TodoList" /\ mounted = "yes" /\ MicroReady
             /\ Head(microQ).k = "chain" /\ Head(microQ).n = 0
             /\ microQ' # microQ ) =>
             /\ cells'.items = FetchData(comp)
             /\ out'.list = Titles(FetchData(comp))
             /\ fetched' = fetched
             /\ effectQ' = effectQ /\ pendQ' = <<>>
             /\ microQ' = Tail(microQ) /\ timers' = timers ]_vars
    /\ []( ( /\ Returned("flushAsync") /\ last.cb.k = "mount"
             /\ comp.kind = "TodoList" /\ comp.fetch.delay = NoDelay )
           => /\ fetched = 1 /\ FetchesInFlight = 0
              /\ effectQ = <<>> /\ pendQ = <<>>
              /\ cells.items = MockTodos )

\* the awaited flush that mounted the list has resolved: one fetch, the
\* todos set, nothing queued
C23_Witness ==
    /\ Returned("flushAsync") /\ last.cb.k = "mount" /\ steps = 1
    /\ comp.kind = "TodoList" /\ comp.fetch.delay = NoDelay
    /\ fetched = 1 /\ cells.items = MockTodos
    /\ microQ = <<>> /\ FetchesInFlight = 0 /\ effectQ = <<>> /\ pendQ = <<>>
    /\ out.list = Titles(MockTodos)

IsResultsTimer(t) == t.k = "results"

\* the values captured by the timer callbacks the search box has scheduled
\* and that have not fired, in the order they were scheduled
CapturedVals(ts) ==
    LET r == SelectSeq(ts, IsResultsTimer)
    IN  [i \in 1..Len(r) |-> r[i].val]

\* the results the search box shows are those of the value val
ResultsOf(rs, val) ==
    IF val = "" THEN rs = <<>>
    ELSE /\ Len(rs) \in ResultLens
         /\ rs = FakeResults(Len(rs), val)
         /\ rs[1] = ResultText(0, val)

\* C24: the search box.  Every change dispatched at it, bare or in a flush,
\* schedules one timer callback carrying the value of that change, in the
\* order of the changes, puts the last value in the input and leaves the
\* results as they were; the timer callbacks fire in the order they were
\* scheduled, each setting the results of the value it captured and
\* leaving the input alone; so whenever no such callback is left to fire
\* the results shown are those of the input value shown: none when it is
\* empty, otherwise a list starting with 'result 1 for <value>'.
C24_ResultsFollowInput ==
    /\ [][ ( /\ comp.kind = "SearchResults" /\ mounted = "yes"
             /\ steps' # steps /\ last'.cb.k = "events" ) =>
             LET evs == last'.cb.evs
             IN  /\ CapturedVals(timers') =
                       CapturedVals(timers) \o [i \in 1..Len(evs) |-> evs[i].val]
                 /\ out'.value = evs[Len(evs)].val
                 /\ cells'.input = evs[Len(evs)].val
                 /\ out'.results = out.results
                 /\ cells'.results = cells.results ]_vars
    /\ [][ ( /\ comp.kind = "SearchResults" /\ mounted = "yes"
             /\ Len(CapturedVals(timers')) < Len(CapturedVals(timers)) ) =>
             /\ CapturedVals(timers') = Tail(CapturedVals(timers))
             /\ ResultsOf(cells'.results, Head(CapturedVals(timers)))
             /\ out'.results = cells'.results
             /\ cells'.input = cells.input /\ out'.value = out.value ]_vars
    /\ []( ( /\ comp.kind = "SearchResults" /\ mounted = "yes"
             /\ CapturedVals(timers) = <<>> )
           => /\ ResultsOf(out.results, out.value)
              /\ out.value = cells.input /\ pendQ = <<>> )

\* two changes were dispatched and the callback of the first has fired:
\* the input shows the second value and the results are those of the first
C24_Witness ==
    /\ comp.kind = "SearchResults" /\ mounted = "yes"
    /\ out.value = "se" /\ out.results = FakeResults(MaxResults, "s")
    /\ CapturedVals(timers) = << "se" >>
    /\ ~ResultsOf(out.results, out.value)

====
